---- MODULE Spec2Model ----
(***************************************************************************)
(* Model of the relay bot in src/bot.py.                                   *)
(*                                                                         *)
(* The state is the five module-level tables of bot.py (questions_data,    *)
(* replies_data, active_users, banned_users, waiting_for_broadcast), the   *)
(* four JSON documents on disk, and the chat platform as far as the bot    *)
(* can observe it: a message-id counter per chat (the Bot API promises a   *)
(* message id to be unique inside its chat only) and, per private chat,    *)
(* which ids are messages of the bot.                                      *)
(*                                                                         *)
(* Every action is one handler run to completion, as the library runs     *)
(* them by default (one update at a time).  `sent` is the list of platform *)
(* calls the last handler made, in order, and `last_event` the update it   *)
(* handled.                                                                *)
(*                                                                         *)
(* Platform failures: a call that targets another chat than the one the    *)
(* update came from (the relay to the staff group, the copy of a staff     *)
(* reply to the user, the copy of a user reply to the staff group, a       *)
(* broadcast copy) succeeds or raises, nondeterministically.  An answer    *)
(* into the chat the update came from (message.reply_text, an edit of the  *)
(* menu message) is taken to succeed.                                      *)
(***************************************************************************)
EXTENDS Integers, Sequences, FiniteSets, TLC

\* ---------------------------------------------------------------- bounds
\* An update is taken only while the message counter of its chat, and of the
\* staff group, is at most the bound of the specification.
MaxUserMsgId == 2
MaxGroupMsgId == 3
RelayMaxUserMsgId == 4
RelayMaxGroupMsgId == 6
MaxSubmissions == 2
BanMaxUserMsgId == 3
BanMaxGroupMsgId == 3
MaxTouches == 2
\* the longest text given to the parser, in tokens
MaxTextLen == 6
\* the longest text given to the AI-backed parser, in tokens
MaxPromptLen == 3
UsersMaxUserMsgId == 5
UsersMaxGroupMsgId == 3
BroadcastMaxUserMsgId == 2
BroadcastMaxGroupMsgId == 6
IsolationMaxUserMsgId == 4
IsolationMaxGroupMsgId == 7
InterleavedMaxUserMsgId == 3
InterleavedMaxGroupMsgId == 5
DeliveryMaxUserMsgId == 3
DeliveryMaxGroupMsgId == 5
FilesMaxUserMsgId == 2
FilesMaxGroupMsgId == 6
LookupMaxUserMsgId == 3
LookupMaxGroupMsgId == 4

\* ------------------------------------------------------ inputs, constants
Users == {1, 2}
Admins == {7, 8}
ADMIN_GROUP_ID == 100
MILESTONE == 50
None == 0

Chats == Users \cup {ADMIN_GROUP_ID}

\* message_type values of handle_user_message that the model draws from:
\* "text" stands for the kinds relayed by one call (text, photo, video,
\* document), "sticker" and "voice" for those relayed as header + media.
MsgTypes == {"text", "sticker"}

VARIABLES questions_data, replies_data, active_users, banned_users,
          waiting_for_broadcast, disk, chat_next, bot_ids, menu_shown,
          uuid_next, last_event, sent, tasks,
          text, parsed, ai

tables == <<questions_data, replies_data, active_users, banned_users>>
vars == <<questions_data, replies_data, active_users, banned_users,
          waiting_for_broadcast, disk, chat_next, bot_ids, menu_shown,
          uuid_next, last_event, sent, tasks, text, parsed, ai>>

\* The state of the bot (tasks are the handle_user_message coroutines that
\* are suspended at a platform call), and the state of the text parser,
\* which the bot does not import.
bot_vars == <<questions_data, replies_data, active_users, banned_users,
              waiting_for_broadcast, disk, chat_next, bot_ids, menu_shown,
              uuid_next, last_event, sent, tasks>>
parser_vars == <<text, parsed, ai>>

\* ---------------------------------------------------------------- helpers
EmptyMap == [x \in {} |-> 0]

Put(map, k, v) == [x \in (DOMAIN map) \cup {k} |-> IF x = k THEN v ELSE map[x]]

Drop(map, k) == [x \in (DOMAIN map) \ {k} |-> map[x]]

\* The id the platform gives the next message sent into chat `to` by a
\* handler whose update was message `inc` (a chat, or None for a callback
\* query, which is no message) and which already made the calls in `out`.
NextId(to, inc, out) ==
    chat_next[to] + (IF to = inc THEN 1 ELSE 0)
    + Cardinality({i \in DOMAIN out : out[i].to = to /\ out[i].id # None})

\* The calls of `out` into another chat than the one the update came from.
Cross(out, inc) == {i \in DOMAIN out : out[i].to # inc /\ inc # None}

\* One platform call appended to the handler's calls so far.  `fails` is the
\* set of ordinals of the handler's cross-chat calls that raise.
Send(out, inc, to, kind, reply_to, info, fails) ==
    LET ok == to = inc \/ (Cardinality(Cross(out, inc)) + 1) \notin fails
    IN Append(out, [to |-> to, kind |-> kind, reply_to |-> reply_to,
                    info |-> info, ok |-> ok,
                    id |-> IF ok THEN NextId(to, inc, out) ELSE None])

\* Every failure the environment chose hit a call the handler made.
Planned(out, inc, fails) == \A n \in fails : n <= Cardinality(Cross(out, inc))

\* An edit of an existing message: no new message id.
Edit(out, to, kind) ==
    Append(out, [to |-> to, kind |-> kind, reply_to |-> None,
                 info |-> <<>>, ok |-> TRUE, id |-> None])

LastId(out) == out[Len(out)].id

LastOk(out) == out[Len(out)].ok

\* The platform after the handler: counters and the bot's messages.
Platform(inc, out, fails) ==
    /\ Planned(out, inc, fails)
    /\ chat_next' = [c \in Chats |->
         chat_next[c] + (IF c = inc THEN 1 ELSE 0)
         + Cardinality({i \in DOMAIN out : out[i].to = c /\ out[i].id # None})]
    /\ bot_ids' = [u \in Users |->
         bot_ids[u] \cup {out[i].id : i \in {j \in DOMAIN out :
                                       out[j].to = u /\ out[j].id # None}}]
    /\ sent' = out

\* The update a handler was called with: its kind, sender and chat, the id
\* of its message (None for a callback query), the message it replies to,
\* `arg` (the branch the handler took, the button, or how a command named
\* its user), and what the handler made of it: the question id of the thread
\* it resolved to or opened, the user id a command named.
Event(kind, from, chat, reply_to, arg, resolved, user_id) ==
    [kind |-> kind, from |-> from, chat |-> chat,
     message_id |-> IF chat = None THEN None ELSE chat_next[chat],
     reply_to |-> reply_to, arg |-> arg, resolved |-> resolved,
     user_id |-> user_id]

\* ------------------------------------------------------------ persistence
\* The disk holds, per document, the table last written to it, the set
\* `exists` of the documents that are there and the set `malformed` of those
\* whose bytes are not JSON.  Every key of the four tables is a str and every
\* value a str, a number, null, a list or a dict, so json.dump followed by
\* json.load gives the table back.
Files == {"questions", "replies", "users", "banned"}

\* The table of a document that is not there or does not parse: {}.
Empty(file) == IF file = "replies" THEN <<>> ELSE EmptyMap

\* save_data, lines 102-107: the document is rewritten in full (the write is
\* taken to succeed).
save_data(d, file, data) ==
    [d EXCEPT ![file] = data, !.exists = @ \cup {file}, !.malformed = @ \ {file}]

\* save_users_data, lines 119-124.
save_users_data(d, users) == save_data(d, "users", users)

\* A load that hands back whatever the document held, parsing or not.
load_data_unguarded(d, file) ==
    IF file \notin d.exists THEN Empty(file) ELSE d[file]

\* load_data, lines 92-100: {} when the document is not there, {} when
\* reading it raises.
load_data(d, file) ==
    IF file \notin d.exists THEN Empty(file)
    ELSE IF file \in d.malformed THEN Empty(file)
    ELSE d[file]

\* load_users_data, lines 109-117.
load_users_data(d) ==
    IF "users" \notin d.exists THEN Empty("users")
    ELSE IF "users" \in d.malformed THEN Empty("users")
    ELSE d.users

\* ------------------------------------------------------------- ban table
\* A membership test with the key as the integer the platform gives, where
\* the table is keyed by str(user_id): it finds nobody.
is_user_banned_int_key(banned, user_id) == user_id \in {}

\* lines 146-147.
is_user_banned(banned, user_id) == user_id \in DOMAIN banned

\* lines 149-153: [banned, disk, result].
ban_user(banned, d, user_id, admin_id) ==
    LET b == Put(banned, user_id, [banned_by |-> admin_id])
    IN [banned |-> b, disk |-> save_data(d, "banned", b), result |-> TRUE]

\* lines 158-164.
unban_user(banned, d, user_id) ==
    IF user_id \in DOMAIN banned
    THEN LET b == Drop(banned, user_id)
         IN [banned |-> b, disk |-> save_data(d, "banned", b), result |-> TRUE]
    ELSE [banned |-> banned, disk |-> d, result |-> FALSE]

\* ------------------------------------------------------------ known users
\* start_command, lines 199-204: a new record starts with message_count 0;
\* an existing one gets a later last_active.
start_touch(users, u) ==
    IF u \notin DOMAIN users
    THEN Put(users, u, [message_count |-> 0, last_active |-> 1])
    ELSE [users EXCEPT ![u].last_active = @ + 1]

\* handle_user_message, lines 505-508.
message_touch(users, u) ==
    IF u \notin DOMAIN users
    THEN Put(users, u, [message_count |-> 1, last_active |-> 1])
    ELSE [users EXCEPT ![u].last_active = @ + 1, ![u].message_count = @ + 1]

\* lines 141-144.
get_all_user_ids(questions, users) ==
    {questions[q].user_id : q \in DOMAIN questions} \cup DOMAIN users

\* ------------------------------------------------------ thread lookups
First(S) == IF S = {} THEN 0 ELSE CHOOSE i \in S : \A j \in S : i <= j

Elems(seq) == {seq[i] : i \in DOMAIN seq}

\* handle_admin_reply, line 583: the first thread, in the order of the
\* dict, whose relay id is the replied-to id or whose
\* admin_thread_message_ids holds it; 0 when there is none.
admin_lookup(rd, replied_msg_id) ==
    First({i \in DOMAIN rd :
             \/ rd[i].admin_message_id = replied_msg_id
             \/ replied_msg_id \in Elems(rd[i].admin_thread_message_ids)})

\* handle_user_reply, lines 549-553: the first thread one of whose
\* admin_replies has the replied-to id as user_reply_message_id.
user_lookup(rd, user_reply_msg_id) ==
    First({i \in DOMAIN rd :
             \E k \in DOMAIN rd[i].admin_replies :
                rd[i].admin_replies[k].user_reply_message_id = user_reply_msg_id})

\* line 552: the staff message of the first matching round of that thread.
matching_admin_msg_id(thread, user_reply_msg_id) ==
    thread.admin_replies[
        First({k \in DOMAIN thread.admin_replies :
                 thread.admin_replies[k].user_reply_message_id = user_reply_msg_id})
    ].admin_message_id

\* ------------------------------------------- forward_to_admin_group_new
\* line 522: the entry the relay starts from.
new_thread(q_data) ==
    [question_id |-> q_data.question_id, user_id |-> q_data.user_id,
     user_message_id |-> q_data.message_id, admin_message_id |-> None,
     admin_replies |-> <<>>, admin_thread_message_ids |-> <<>>]

\* The entry keeping the id of the user's message where the id of the sent
\* message belongs.
record_relay_user_message_id(rd, question_id, sent_message_id) ==
    [i \in DOMAIN rd |->
        IF rd[i].question_id = question_id
        THEN [rd[i] EXCEPT !.admin_message_id = rd[i].user_message_id]
        ELSE rd[i]]

\* lines 538-539: the relay id written into the entry of question_id.
record_relay(rd, question_id, sent_message_id) ==
    [i \in DOMAIN rd |->
        IF rd[i].question_id = question_id
        THEN [rd[i] EXCEPT !.admin_message_id = sent_message_id]
        ELSE rd[i]]

\* message types relayed as an information message followed by the media
\* (lines 530-536); every other type is one call (lines 526-529).
two_calls(message_type) == message_type \in {"sticker", "voice", "audio"}

\* The calls of the relay, lines 524-536; a call that raises ends them.
relay_calls(out, inc, q_data, fails) ==
    IF two_calls(q_data.message_type)
    THEN LET o1 == Send(out, inc, ADMIN_GROUP_ID, "relay_header", None,
                        <<q_data.user_id>>, fails)
         IN IF ~LastOk(o1) THEN o1
            ELSE Send(o1, inc, ADMIN_GROUP_ID, "relay", None, <<>>, fails)
    ELSE Send(out, inc, ADMIN_GROUP_ID, "relay", None, <<q_data.user_id>>,
              fails)

\* The whole function: [replies, disk, out, raised] after it.
forward_to_admin_group_new(rd, d, out, inc, q_data, fails) ==
    LET rd1 == Append(rd, new_thread(q_data))
        o == relay_calls(out, inc, q_data, fails)
    IN IF LastOk(o)
       THEN LET rd2 == record_relay(rd1, q_data.question_id, LastId(o))
            IN [replies |-> rd2, disk |-> save_data(d, "replies", rd2), out |-> o]
       ELSE [replies |-> rd1, disk |-> d, out |-> o]

\* ------------------------------------------------------ handle_user_reply
\* lines 571-573.
record_user_reply(rd, i, staff_copy_id) ==
    [rd EXCEPT ![i].admin_thread_message_ids = Append(@, staff_copy_id)]

\* A handle_user_reply that tells the user when it finds no thread.
handle_user_reply_reporting(rd, d, u, reply_to, fails) ==
    LET i == user_lookup(rd, reply_to)
    IN IF i = 0
       THEN [replies |-> rd, disk |-> d,
             out |-> Send(<<>>, u, u, "reply_unknown", None, <<>>, fails),
             resolved |-> None]
       ELSE
         LET admin_msg_id == matching_admin_msg_id(rd[i], reply_to)
             o1 == Send(<<>>, u, ADMIN_GROUP_ID, "user_copy", admin_msg_id,
                        <<>>, fails)
             o2 == Send(o1, u, ADMIN_GROUP_ID, "reply_header", LastId(o1),
                        <<rd[i].user_id>>, fails)
             rd1 == record_user_reply(rd, i, LastId(o1))
         IN IF ~LastOk(o1)
            THEN [replies |-> rd, disk |-> d, out |-> o1,
                  resolved |-> rd[i].question_id]
            ELSE IF ~LastOk(o2)
            THEN [replies |-> rd, disk |-> d, out |-> o2,
                  resolved |-> rd[i].question_id]
            ELSE [replies |-> rd1, disk |-> save_data(d, "replies", rd1),
                  out |-> Send(o2, u, u, "reply_ok", None, <<>>, fails),
                  resolved |-> rd[i].question_id]

\* [replies, disk, out, resolved] after the function.
handle_user_reply(rd, d, u, reply_to, fails) ==
    LET i == user_lookup(rd, reply_to)
    IN IF i = 0
       THEN [replies |-> rd, disk |-> d, out |-> <<>>, resolved |-> None]
       ELSE
         LET admin_msg_id == matching_admin_msg_id(rd[i], reply_to)
             o1 == Send(<<>>, u, ADMIN_GROUP_ID, "user_copy", admin_msg_id,
                        <<>>, fails)
             o2 == Send(o1, u, ADMIN_GROUP_ID, "reply_header", LastId(o1),
                        <<rd[i].user_id>>, fails)
             rd1 == record_user_reply(rd, i, LastId(o1))
         IN IF ~LastOk(o1)
            THEN [replies |-> rd, disk |-> d, out |-> o1,
                  resolved |-> rd[i].question_id]
            ELSE IF ~LastOk(o2)
            THEN [replies |-> rd, disk |-> d, out |-> o2,
                  resolved |-> rd[i].question_id]
            ELSE [replies |-> rd1, disk |-> save_data(d, "replies", rd1),
                  out |-> Send(o2, u, u, "reply_ok", None, <<>>, fails),
                  resolved |-> rd[i].question_id]

\* ----------------------------------------------------- handle_admin_reply
\* A round written in place of the rounds on record.
record_admin_reply_overwriting(rd, i, admin_message_id, user_reply_message_id) ==
    [rd EXCEPT ![i].admin_replies =
        <<[admin_message_id |-> admin_message_id,
           user_reply_message_id |-> user_reply_message_id]>>]

\* lines 596-597: one round appended to the thread.
record_admin_reply(rd, i, admin_message_id, user_reply_message_id) ==
    [rd EXCEPT ![i].admin_replies =
        Append(@, [admin_message_id |-> admin_message_id,
                   user_reply_message_id |-> user_reply_message_id])]

\* A copy sent as a reply to the relayed message of the staff group instead
\* of the user's own message.
reply_target_relay_id(thread) ==
    [chat |-> thread.user_id, reply_to |-> thread.admin_message_id]

\* lines 586-587 and 593: where the copy of the staff reply goes.
reply_target(thread) ==
    [chat |-> thread.user_id, reply_to |-> thread.user_message_id]

\* A handle_admin_reply that appends the round before it knows whether the
\* copy was delivered.
handle_admin_reply_recording_first(rd, d, message_id, reply_to, fails) ==
    LET i == admin_lookup(rd, reply_to)
    IN IF i = 0
       THEN [replies |-> rd, disk |-> d, out |-> <<>>, resolved |-> None]
       ELSE
         LET t == reply_target(rd[i])
             o1 == Send(<<>>, ADMIN_GROUP_ID, t.chat, "staff_copy", t.reply_to,
                        <<>>, fails)
             rd1 == record_admin_reply(rd, i, message_id, LastId(o1))
         IN [replies |-> rd1, disk |-> save_data(d, "replies", rd1),
             out |-> Send(o1, ADMIN_GROUP_ID, ADMIN_GROUP_ID,
                          IF LastOk(o1) THEN "reply_sent" ELSE "reply_failed",
                          message_id, <<>>, fails),
             resolved |-> rd[i].question_id]

\* [replies, disk, out, resolved] after the function; message_id is the
\* staff member's message.
handle_admin_reply(rd, d, message_id, reply_to, fails) ==
    LET i == admin_lookup(rd, reply_to)
    IN IF i = 0
       THEN [replies |-> rd, disk |-> d, out |-> <<>>, resolved |-> None]
       ELSE
         LET t == reply_target(rd[i])
             o1 == Send(<<>>, ADMIN_GROUP_ID, t.chat, "staff_copy", t.reply_to,
                        <<>>, fails)
             rd1 == record_admin_reply(rd, i, message_id, LastId(o1))
         IN IF LastOk(o1)
            THEN [replies |-> rd1, disk |-> save_data(d, "replies", rd1),
                  out |-> Send(o1, ADMIN_GROUP_ID, ADMIN_GROUP_ID,
                               "reply_sent", message_id, <<>>, fails),
                  resolved |-> rd[i].question_id]
            ELSE [replies |-> rd, disk |-> d,
                  out |-> Send(o1, ADMIN_GROUP_ID, ADMIN_GROUP_ID,
                               "reply_failed", message_id, <<>>, fails),
                  resolved |-> rd[i].question_id]

\* ----------------------------------------------- handle_broadcast_message
Min(S) == CHOOSE x \in S : \A y \in S : x <= y

\* A loop that ends at the first copy that raises.
RECURSIVE broadcast_copies_stopping(_, _, _)
broadcast_copies_stopping(out, user_ids, fails) ==
    IF user_ids = {} THEN out
    ELSE LET u == Min(user_ids)
             o == Send(out, ADMIN_GROUP_ID, u, "broadcast", None, <<>>, fails)
         IN IF LastOk(o)
            THEN broadcast_copies_stopping(o, user_ids \ {u}, fails)
            ELSE o

\* lines 611-618: one copy per user id; a copy that raises is counted and
\* the loop goes on.
RECURSIVE broadcast_copies(_, _, _)
broadcast_copies(out, user_ids, fails) ==
    IF user_ids = {} THEN out
    ELSE LET u == Min(user_ids)
         IN broadcast_copies(
              Send(out, ADMIN_GROUP_ID, u, "broadcast", None, <<>>, fails),
              user_ids \ {u}, fails)

\* The calls of the function, lines 604-620.
handle_broadcast_message(user_ids, message_id, fails) ==
    IF user_ids = {}
    THEN Send(<<>>, ADMIN_GROUP_ID, ADMIN_GROUP_ID, "broadcast_nobody",
              message_id, <<>>, fails)
    ELSE LET o1 == Send(<<>>, ADMIN_GROUP_ID, ADMIN_GROUP_ID,
                        "broadcast_start", message_id,
                        <<Cardinality(user_ids)>>, fails)
             o2 == broadcast_copies(o1, user_ids, fails)
             successful == Cardinality({k \in DOMAIN o2 :
                              o2[k].kind = "broadcast" /\ o2[k].ok})
             failed == Cardinality({k \in DOMAIN o2 :
                              o2[k].kind = "broadcast" /\ ~o2[k].ok})
         IN Send(o2, ADMIN_GROUP_ID, ADMIN_GROUP_ID, "broadcast_done",
                 message_id, <<successful, failed>>, fails)

\* ------------------------------------------------------------------- Init
\* A first start: no document on disk, every table empty (lines 131-134).
BotInit ==
    /\ questions_data = EmptyMap
    /\ replies_data = <<>>
    /\ active_users = EmptyMap
    /\ banned_users = EmptyMap
    /\ waiting_for_broadcast = EmptyMap
    /\ disk = [questions |-> EmptyMap, replies |-> <<>>,
               users |-> EmptyMap, banned |-> EmptyMap,
               exists |-> {}, malformed |-> {}]
    /\ chat_next = [c \in Chats |-> 1]
    /\ bot_ids = [u \in Users |-> {}]
    /\ menu_shown = {}
    /\ uuid_next = 1
    /\ last_event = Event("init", None, None, None, "none", None, None)
    /\ sent = <<>>
    /\ tasks = {}

\* No text has been given to the parser.
NotParsed ==
    [done |-> FALSE, question_lines |-> <<>>, option_lines |-> <<>>,
     question_text |-> <<>>, options |-> <<>>]

\* The AI-backed parser has not been called: no key, no response.
NotAsked ==
    [key |-> FALSE, response |-> [kind |-> "none", items |-> <<>>],
     done |-> FALSE, result |-> <<>>]

Init == BotInit /\ text = <<>> /\ parsed = NotParsed /\ ai = NotAsked

\* ---------------------------------------------------------- start_command
StartCommand(u) ==
    /\ active_users' = start_touch(active_users, u)
    /\ disk' = save_users_data(disk, active_users')
    /\ Platform(u, Send(<<>>, u, u, "welcome", None, <<>>, {}), {})
    /\ menu_shown' = menu_shown \cup {u}
    /\ last_event' = Event("start", u, u, None, "none", None, None)
    /\ UNCHANGED <<questions_data, replies_data, banned_users,
                   waiting_for_broadcast, uuid_next>>

\* --------------------------------------------------------- button_handler
\* query.data is one of the three patterns the handler is registered for;
\* the query comes from a menu message, which /start has sent.
Buttons == {"orders_list", "instructions", "main_menu"}

ButtonHandler(u, data) ==
    /\ u \in menu_shown
    /\ IF data = "main_menu"
       THEN \* line 280: start_command
            /\ u \in DOMAIN active_users =>
                  active_users[u].last_active < MaxTouches
            /\ active_users' = start_touch(active_users, u)
            /\ disk' = save_users_data(disk, active_users')
            /\ Platform(None, Edit(<<>>, u, "edit_welcome"), {})
       ELSE /\ Platform(None, Edit(<<>>, u, "edit_" \o data), {})
            /\ UNCHANGED <<active_users, disk>>
    /\ last_event' = Event("button", u, None, None, data, None, None)
    /\ UNCHANGED <<questions_data, replies_data, banned_users,
                   waiting_for_broadcast, menu_shown, uuid_next>>

\* ---------------------------------------------------- handle_user_message
\* line 501.
question_record(question_id, u, message_type, message_id) ==
    [question_id |-> question_id, user_id |-> u,
     message_type |-> message_type, message_id |-> message_id]

\* A new item relayed without the submissions document being written.
new_submission_unflushed(u, message_type, message_id, fails) ==
    LET q_data == question_record(uuid_next, u, message_type, message_id)
        qs == Put(questions_data, uuid_next, q_data)
        us == message_touch(active_users, u)
        d2 == save_users_data(disk, us)
        o1 == Send(<<>>, u, u, "received", None, <<>>, fails)
        f == forward_to_admin_group_new(replies_data, d2, o1, u, q_data, fails)
    IN [questions |-> qs, users |-> us, replies |-> f.replies, disk |-> f.disk,
        out |-> f.out]

\* A new item stored under the id of its author instead of a fresh id.
new_submission_per_user(u, message_type, message_id, fails) ==
    LET q_data == question_record(uuid_next, u, message_type, message_id)
        qs == Put(questions_data, u, q_data)
        d1 == save_data(disk, "questions", qs)
        us == message_touch(active_users, u)
        d2 == save_users_data(d1, us)
        o1 == Send(<<>>, u, u, "received", None, <<>>, fails)
        f == forward_to_admin_group_new(replies_data, d2, o1, u, q_data, fails)
    IN [questions |-> qs, users |-> us, replies |-> f.replies, disk |-> f.disk,
        out |-> f.out]

\* lines 490-515, a new item: [questions, users, replies, disk, out].
new_submission(u, message_type, message_id, fails) ==
    LET q_data == question_record(uuid_next, u, message_type, message_id)
        qs == Put(questions_data, uuid_next, q_data)
        d1 == save_data(disk, "questions", qs)
        us == message_touch(active_users, u)
        d2 == save_users_data(d1, us)
        o1 == Send(<<>>, u, u, "received", None, <<>>, fails)
        f == forward_to_admin_group_new(replies_data, d2, o1, u, q_data, fails)
    IN [questions |-> qs, users |-> us, replies |-> f.replies, disk |-> f.disk,
        out |-> IF Cardinality(DOMAIN qs) % MILESTONE = 0
                THEN Send(f.out, u, ADMIN_GROUP_ID, "milestone", None, <<>>,
                          fails)
                ELSE f.out]

HandleUserMessage(u, message_type, reply_to, fails) ==
    /\ IF is_user_banned(banned_users, u)
       THEN \* line 487
            /\ Platform(u, Send(<<>>, u, u, "ban_notice", None, <<>>, fails),
                        fails)
            /\ last_event' = Event("user_message", u, u, reply_to, "banned", None, None)
            /\ UNCHANGED <<questions_data, replies_data, active_users, disk,
                           uuid_next>>
       ELSE IF reply_to # None /\ reply_to \in bot_ids[u]
       THEN \* line 488
            /\ LET r == handle_user_reply(replies_data, disk, u, reply_to, fails)
               IN /\ replies_data' = r.replies
                  /\ disk' = r.disk
                  /\ Platform(u, r.out, fails)
                  /\ last_event' = Event("user_message", u, u, reply_to, "reply",
                                         r.resolved, None)
            /\ UNCHANGED <<questions_data, active_users, uuid_next>>
       ELSE /\ Cardinality(DOMAIN questions_data) < MaxSubmissions
            /\ LET r == new_submission(u, message_type, chat_next[u], fails)
               IN /\ questions_data' = r.questions
                  /\ active_users' = r.users
                  /\ replies_data' = r.replies
                  /\ disk' = r.disk
                  /\ Platform(u, r.out, fails)
                  /\ last_event' = Event("user_message", u, u, reply_to, "new",
                                         uuid_next, None)
            /\ uuid_next' = uuid_next + 1
    /\ UNCHANGED <<banned_users, waiting_for_broadcast, menu_shown>>

\* ---------------------------------------- handle_admin_reply_or_broadcast
\* line 653: waiting_for_broadcast.get(user_id, False).
waiting(w, a) == a \in DOMAIN w /\ w[a]

\* A handler that looks at the reply before it looks at the flag.
HandleAdminMessage_reply_first(a, reply_to, fails) ==
    /\ IF reply_to # None
       THEN /\ LET r == handle_admin_reply(replies_data, disk,
                                           chat_next[ADMIN_GROUP_ID], reply_to,
                                           fails)
               IN /\ replies_data' = r.replies
                  /\ disk' = r.disk
                  /\ Platform(ADMIN_GROUP_ID, r.out, fails)
                  /\ last_event' = Event("admin_message", a, ADMIN_GROUP_ID,
                                         reply_to, "reply", r.resolved, None)
            /\ UNCHANGED waiting_for_broadcast
       ELSE IF waiting(waiting_for_broadcast, a)
       THEN /\ Platform(ADMIN_GROUP_ID,
                        handle_broadcast_message(
                           get_all_user_ids(questions_data, active_users),
                           chat_next[ADMIN_GROUP_ID], fails),
                        fails)
            /\ waiting_for_broadcast' = Put(waiting_for_broadcast, a, FALSE)
            /\ last_event' = Event("admin_message", a, ADMIN_GROUP_ID, reply_to,
                                   "broadcast", None, None)
            /\ UNCHANGED <<replies_data, disk>>
       ELSE /\ Platform(ADMIN_GROUP_ID, <<>>, fails)
            /\ last_event' = Event("admin_message", a, ADMIN_GROUP_ID, reply_to,
                                   "plain", None, None)
            /\ UNCHANGED <<replies_data, disk, waiting_for_broadcast>>
    /\ UNCHANGED <<questions_data, active_users, banned_users, menu_shown,
                   uuid_next>>

HandleAdminMessage(a, reply_to, fails) ==
    /\ IF waiting(waiting_for_broadcast, a)
       THEN \* lines 653-655
            /\ Platform(ADMIN_GROUP_ID,
                        handle_broadcast_message(
                           get_all_user_ids(questions_data, active_users),
                           chat_next[ADMIN_GROUP_ID], fails),
                        fails)
            /\ waiting_for_broadcast' = Put(waiting_for_broadcast, a, FALSE)
            /\ last_event' = Event("admin_message", a, ADMIN_GROUP_ID, reply_to,
                                   "broadcast", None, None)
            /\ UNCHANGED <<replies_data, disk>>
       ELSE IF reply_to # None
       THEN \* lines 656-657
            /\ LET r == handle_admin_reply(replies_data, disk,
                                           chat_next[ADMIN_GROUP_ID], reply_to,
                                           fails)
               IN /\ replies_data' = r.replies
                  /\ disk' = r.disk
                  /\ Platform(ADMIN_GROUP_ID, r.out, fails)
                  /\ last_event' = Event("admin_message", a, ADMIN_GROUP_ID,
                                         reply_to, "reply", r.resolved, None)
            /\ UNCHANGED waiting_for_broadcast
       ELSE /\ Platform(ADMIN_GROUP_ID, <<>>, fails)
            /\ last_event' = Event("admin_message", a, ADMIN_GROUP_ID, reply_to,
                                   "plain", None, None)
            /\ UNCHANGED <<replies_data, disk, waiting_for_broadcast>>
    /\ UNCHANGED <<questions_data, active_users, banned_users, menu_shown,
                   uuid_next>>

\* A call that raised: nothing was sent.
Raised(out, to, kind, reply_to) ==
    Append(out, [to |-> to, kind |-> kind, reply_to |-> reply_to,
                 info |-> <<>>, ok |-> FALSE, id |-> None])

\* Where an answer of handle_broadcast_message into the staff group raises:
\* the first one (line 607 or 609) or the report (line 620).  None of the
\* three reply_text calls stands in a try.
RaisePoints == {"first_answer", "report"}

\* The calls of handle_broadcast_message, lines 604-620, up to the answer
\* that raises.
handle_broadcast_message_raising(user_ids, message_id, fails, at) ==
    IF user_ids = {}
    THEN Raised(<<>>, ADMIN_GROUP_ID, "broadcast_nobody", message_id)
    ELSE IF at = "first_answer"
    THEN Raised(<<>>, ADMIN_GROUP_ID, "broadcast_start", message_id)
    ELSE LET o1 == Send(<<>>, ADMIN_GROUP_ID, ADMIN_GROUP_ID,
                        "broadcast_start", message_id,
                        <<Cardinality(user_ids)>>, fails)
             o2 == broadcast_copies(o1, user_ids, fails)
         IN Raised(o2, ADMIN_GROUP_ID, "broadcast_done", message_id)

\* handle_admin_reply_or_broadcast, lines 650-655, when the sender is awaited
\* and handle_broadcast_message raises: the exception leaves the handler at
\* line 654 and line 655 is not run.
HandleAdminMessageRaising(a, reply_to, fails, at) ==
    /\ waiting(waiting_for_broadcast, a)
    /\ Platform(ADMIN_GROUP_ID,
                handle_broadcast_message_raising(
                   get_all_user_ids(questions_data, active_users),
                   chat_next[ADMIN_GROUP_ID], fails, at),
                fails)
    /\ last_event' = Event("admin_message", a, ADMIN_GROUP_ID, reply_to,
                           "broadcast_raised", None, None)
    /\ UNCHANGED <<questions_data, replies_data, active_users, banned_users,
                   waiting_for_broadcast, disk, menu_shown, uuid_next>>

\* ------------------------------------------------------ broadcast_command
Answer(kind, info) ==
    Send(<<>>, ADMIN_GROUP_ID, ADMIN_GROUP_ID, kind,
         chat_next[ADMIN_GROUP_ID], info, {})

BroadcastCommand(a) ==
    /\ waiting_for_broadcast' = Put(waiting_for_broadcast, a, TRUE)
    /\ Platform(ADMIN_GROUP_ID,
                Answer("broadcast_prompt",
                       <<Cardinality(get_all_user_ids(questions_data,
                                                      active_users))>>),
                {})
    /\ last_event' = Event("broadcast_command", a, ADMIN_GROUP_ID, None, "none",
                           None, None)
    /\ UNCHANGED <<questions_data, replies_data, active_users, banned_users,
                   disk, menu_shown, uuid_next>>

\* ------------------------------------------------- ban_command, unban_command
\* How /ban and /unban name their user (lines 386-417 and 436-462):
\*   "reply_id"   a reply to a message whose text carries a user id,
\*   "reply_bad"  a reply to a message with the marker but no number,
\*   "reply_none" a reply to a message without the marker,
\*   "args_id"    the id as first argument,
\*   "args_bad"   a first argument that is no number,
\*   "no_args"    neither a reply nor an argument.
CommandModes ==
    {"reply_id", "reply_bad", "reply_none", "args_id", "args_bad", "no_args"}

\* The answer of the command when it names no user; "none" when it names one.
usage_answer(mode) ==
    CASE mode = "reply_bad" -> "cannot_extract_id"
      [] mode = "reply_none" -> "reply_needs_id_message"
      [] mode = "args_bad" -> "invalid_user_id"
      [] mode = "no_args" -> "usage"
      [] OTHER -> "none"

\* lines 419-425: [banned, disk, out].
ban_command(banned, d, a, mode, user_id) ==
    IF usage_answer(mode) # "none"
    THEN [banned |-> banned, disk |-> d, out |-> Answer(usage_answer(mode), <<>>)]
    ELSE IF is_user_banned(banned, user_id)
    THEN [banned |-> banned, disk |-> d,
          out |-> Answer("already_banned", <<user_id>>)]
    ELSE LET r == ban_user(banned, d, user_id, a)
         IN [banned |-> r.banned, disk |-> r.disk,
             out |-> IF r.result THEN Answer("banned", <<user_id>>) ELSE <<>>]

\* An unban_command without the test of lines 464-467: it goes straight to
\* unban_user.
unban_command_unchecked(banned, d, mode, user_id) ==
    IF usage_answer(mode) # "none"
    THEN [banned |-> banned, disk |-> d, out |-> Answer(usage_answer(mode), <<>>)]
    ELSE LET r == unban_user(banned, d, user_id)
         IN [banned |-> r.banned, disk |-> r.disk,
             out |-> IF r.result THEN Answer("unbanned", <<user_id>>) ELSE <<>>]

\* lines 464-470: [banned, disk, out].
unban_command(banned, d, mode, user_id) ==
    IF usage_answer(mode) # "none"
    THEN [banned |-> banned, disk |-> d, out |-> Answer(usage_answer(mode), <<>>)]
    ELSE IF ~is_user_banned(banned, user_id)
    THEN [banned |-> banned, disk |-> d,
          out |-> Answer("not_banned", <<user_id>>)]
    ELSE LET r == unban_user(banned, d, user_id)
         IN [banned |-> r.banned, disk |-> r.disk,
             out |-> IF r.result THEN Answer("unbanned", <<user_id>>) ELSE <<>>]

BanCommand(a, mode, user_id) ==
    /\ LET r == ban_command(banned_users, disk, a, mode, user_id)
       IN /\ banned_users' = r.banned
          /\ disk' = r.disk
          /\ Platform(ADMIN_GROUP_ID, r.out, {})
    /\ last_event' = Event("ban_command", a, ADMIN_GROUP_ID, None, mode, None,
                           IF usage_answer(mode) = "none" THEN user_id ELSE None)
    /\ UNCHANGED <<questions_data, replies_data, active_users,
                   waiting_for_broadcast, menu_shown, uuid_next>>

UnbanCommand(a, mode, user_id) ==
    /\ LET r == unban_command(banned_users, disk, mode, user_id)
       IN /\ banned_users' = r.banned
          /\ disk' = r.disk
          /\ Platform(ADMIN_GROUP_ID, r.out, {})
    /\ last_event' = Event("unban_command", a, ADMIN_GROUP_ID, None, mode, None,
                           IF usage_answer(mode) = "none" THEN user_id ELSE None)
    /\ UNCHANGED <<questions_data, replies_data, active_users,
                   waiting_for_broadcast, menu_shown, uuid_next>>

\* ---------------------------------------------------- staff-only commands
StaffCommands ==
    {"stats", "export", "import", "broadcast", "ban", "unban", "banned"}

\* An answer to every /banned, wherever it was sent.
in_admin_group_banned_open(command, chat) ==
    command = "banned" \/ chat = ADMIN_GROUP_ID

\* The test each staff command starts with (lines 288, 301, 315, 366, 378,
\* 429, 475): the update comes from the staff group.
in_admin_group(command, chat) ==
    CASE command = "stats" -> chat = ADMIN_GROUP_ID
      [] command = "export" -> chat = ADMIN_GROUP_ID
      [] command = "import" -> chat = ADMIN_GROUP_ID
      [] command = "broadcast" -> chat = ADMIN_GROUP_ID
      [] command = "ban" -> chat = ADMIN_GROUP_ID
      [] command = "unban" -> chat = ADMIN_GROUP_ID
      [] command = "banned" -> chat = ADMIN_GROUP_ID

\* The handler returned at its first line.
Returned(command, from, chat) ==
    /\ Platform(chat, <<>>, {})
    /\ last_event' = Event(command \o "_command", from, chat, None, "none",
                           None, None)
    /\ UNCHANGED <<questions_data, replies_data, active_users, banned_users,
                   waiting_for_broadcast, disk, menu_shown, uuid_next>>

\* message.reply_text of a handler whose update came from `chat`.
AnswerIn(chat, kind, info) ==
    Send(<<>>, chat, chat, kind, chat_next[chat], info, {})

\* stats_command after its first line, lines 290-298; `chat` is where the
\* command was sent.
StatsCommand(a, chat) ==
    /\ Platform(chat,
                AnswerIn(chat, "stats",
                         <<Cardinality(DOMAIN questions_data),
                           Cardinality(get_all_user_ids(questions_data,
                                                        active_users))>>),
                {})
    /\ last_event' = Event("stats_command", a, chat, None, "none", None, None)
    /\ UNCHANGED <<questions_data, replies_data, active_users, banned_users,
                   waiting_for_broadcast, disk, menu_shown, uuid_next>>

\* banned_list_command after its first line, lines 476-482.
BannedListCommand(a, chat) ==
    /\ Platform(chat,
                IF DOMAIN banned_users = {}
                THEN AnswerIn(chat, "nobody_banned", <<>>)
                ELSE AnswerIn(chat, "banned_list",
                              <<Cardinality(DOMAIN banned_users)>>),
                {})
    /\ last_event' = Event("banned_command", a, chat, None, "none", None, None)
    /\ UNCHANGED <<questions_data, replies_data, active_users, banned_users,
                   waiting_for_broadcast, disk, menu_shown, uuid_next>>

\* ------------------------------------------------------------ documents
\* A document in the staff group: `name` is the set of table words its
\* lower-cased file name contains, `json` whether its bytes parse, `data` the
\* table they parse to.
Document(name, json, data) == [name |-> name, json |-> json, data |-> data]

\* The documents /export sends, lines 304-307: one per file that is there,
\* named "<table>_<timestamp>.json", with the bytes of the file.
ExportOrder == <<"questions", "replies", "users", "banned">>

exported(d, file) == Document({file}, file \notin d.malformed, d[file])

RECURSIVE export_calls(_, _, _)
export_calls(out, d, k) ==
    IF k > Len(ExportOrder) THEN out
    ELSE export_calls(
           IF ExportOrder[k] \in d.exists
           THEN Send(out, ADMIN_GROUP_ID, ADMIN_GROUP_ID,
                     "document_" \o ExportOrder[k], chat_next[ADMIN_GROUP_ID],
                     <<>>, {})
           ELSE out,
           d, k + 1)

\* export_command, lines 300-310.
ExportCommand(a) ==
    /\ Platform(ADMIN_GROUP_ID,
                Send(export_calls(<<>>, disk, 1), ADMIN_GROUP_ID,
                     ADMIN_GROUP_ID, "export_done", chat_next[ADMIN_GROUP_ID],
                     <<>>, {}),
                {})
    /\ last_event' = Event("export_command", a, ADMIN_GROUP_ID, None, "none",
                           None, None)
    /\ UNCHANGED <<questions_data, replies_data, active_users, banned_users,
                   waiting_for_broadcast, disk, menu_shown, uuid_next>>

\* lines 337-343: the file the name of the document stands for.
target_file(name) ==
    IF "questions" \in name THEN "questions"
    ELSE IF "replies" \in name THEN "replies"
    ELSE IF "users" \in name THEN "users"
    ELSE IF "banned" \in name THEN "banned"
    ELSE "none"

\* lines 350-351: the bytes of the document written over the file.
write_document(d, file, doc) ==
    [d EXCEPT ![file] = doc.data, !.exists = @ \cup {file},
              !.malformed = @ \ {file}]

\* What the sender of /import is to the staff group (lines 317-325): an
\* administrator, a plain member, or the platform call raises.
AdminChecks == {"administrator", "member", "raises"}

\* What /import replies to: no message with a document, a document the
\* preceding /export sent, or a document a member uploaded.
ImportReplies == {"none", "export", "upload"}

\* An /import that writes the document without parsing it first.
import_command_unvalidated(d, is_admin, reply, doc) ==
    IF is_admin = "raises"
    THEN [disk |-> d, reload |-> FALSE, out |-> Answer("admin_check_failed", <<>>)]
    ELSE IF is_admin # "administrator"
    THEN [disk |-> d, reload |-> FALSE, out |-> Answer("admins_only", <<>>)]
    ELSE IF reply = "none"
    THEN [disk |-> d, reload |-> FALSE, out |-> Answer("import_usage", <<>>)]
    ELSE IF target_file(doc.name) = "none"
    THEN [disk |-> d, reload |-> FALSE, out |-> Answer("unknown_file", <<>>)]
    ELSE [disk |-> write_document(d, target_file(doc.name), doc),
          reload |-> TRUE, out |-> Answer("imported", <<>>)]

\* import_command after its first line, lines 317-363: [disk, reload, out].
import_command(d, is_admin, reply, doc) ==
    IF is_admin = "raises"
    THEN [disk |-> d, reload |-> FALSE, out |-> Answer("admin_check_failed", <<>>)]
    ELSE IF is_admin # "administrator"
    THEN [disk |-> d, reload |-> FALSE, out |-> Answer("admins_only", <<>>)]
    ELSE IF reply = "none"
    THEN [disk |-> d, reload |-> FALSE, out |-> Answer("import_usage", <<>>)]
    ELSE IF target_file(doc.name) = "none"
    THEN [disk |-> d, reload |-> FALSE, out |-> Answer("unknown_file", <<>>)]
    ELSE IF ~doc.json
    THEN [disk |-> d, reload |-> FALSE, out |-> Answer("invalid_json", <<>>)]
    ELSE [disk |-> write_document(d, target_file(doc.name), doc),
          reload |-> TRUE, out |-> Answer("imported", <<>>)]

\* The update of /import: the event and, with it, who sent it, what it
\* replies to and the document there.
ImportEvent(a, is_admin, reply, doc) ==
    [kind |-> "import_command", from |-> a, chat |-> ADMIN_GROUP_ID,
     message_id |-> chat_next[ADMIN_GROUP_ID], reply_to |-> None,
     arg |-> reply, resolved |-> None, user_id |-> None,
     is_admin |-> is_admin, document |-> doc]

ImportCommand(a, is_admin, reply, doc) ==
    /\ LET r == import_command(disk, is_admin, reply, doc)
       IN /\ disk' = r.disk
          /\ Platform(ADMIN_GROUP_ID, r.out, {})
          /\ IF r.reload
             THEN \* lines 353-356
                  /\ questions_data' = load_data(r.disk, "questions")
                  /\ replies_data' = load_data(r.disk, "replies")
                  /\ active_users' = load_users_data(r.disk)
                  /\ banned_users' = load_data(r.disk, "banned")
             ELSE UNCHANGED <<questions_data, replies_data, active_users,
                              banned_users>>
    /\ last_event' = ImportEvent(a, is_admin, reply, doc)
    /\ UNCHANGED <<waiting_for_broadcast, menu_shown, uuid_next>>

\* --------------------------------------------------------------- startup
\* The process starts again (lines 50-55 and 130-133): the tables are loaded
\* from the documents, nobody is awaited for a broadcast.  `damage` are the
\* documents whose last write was cut short, so that they do not parse.
Restart(damage) ==
    /\ disk' = [disk EXCEPT !.malformed = @ \cup damage]
    /\ questions_data' = load_data(disk', "questions")
    /\ replies_data' = load_data(disk', "replies")
    /\ banned_users' = load_data(disk', "banned")
    /\ active_users' = load_users_data(disk')
    /\ waiting_for_broadcast' = EmptyMap
    /\ sent' = <<>>
    /\ last_event' = Event("restart", None, None, None, "none", None, None)
    /\ UNCHANGED <<chat_next, bot_ids, menu_shown, uuid_next>>

\* A staff command sent in chat `chat`.
StaffCommand(command, from, chat, mode, user_id, is_admin, reply, doc) ==
    IF ~in_admin_group(command, chat) THEN Returned(command, from, chat)
    ELSE CASE command = "stats" -> StatsCommand(from, chat)
           [] command = "export" -> ExportCommand(from)
           [] command = "import" -> ImportCommand(from, is_admin, reply, doc)
           [] command = "broadcast" -> BroadcastCommand(from)
           [] command = "ban" -> BanCommand(from, mode, user_id)
           [] command = "unban" -> UnbanCommand(from, mode, user_id)
           [] command = "banned" -> BannedListCommand(from, chat)

\* ------------------------------------------------------ smart_parser.py
\* A text is a sequence of tokens; the tokens of a line stand one blank
\* apart.  "nl" is the line break, "1." an option marker followed by a blank
\* (what option_pattern matches at the start of a line), "lead_in" one of the
\* phrases of common_intros, "options:" the header the last substitution
\* removes, "word" and "long_word" plain words.
Tokens == {"nl", "1.", "lead_in", "options:", "word", "long_word"}

Newline == "nl"

\* The number of characters of a token.
TokenLen(t) ==
    CASE t = "nl" -> 1
      [] t = "1." -> 2
      [] t = "lead_in" -> 9
      [] t = "options:" -> 9
      [] t = "word" -> 4
      [] t = "long_word" -> 30

\* line 27: the length below which a line with a lead-in phrase is dropped.
IntroMaxLen == 35

\* str.strip(): the white space at both ends goes.
RECURSIVE lstrip(_)
lstrip(str) ==
    IF str # <<>> /\ Head(str) = Newline THEN lstrip(Tail(str)) ELSE str

RECURSIVE rstrip(_)
rstrip(str) ==
    IF str # <<>> /\ str[Len(str)] = Newline
    THEN rstrip(SubSeq(str, 1, Len(str) - 1))
    ELSE str

strip(str) == rstrip(lstrip(str))

\* str.split('\n'): the pieces between the line breaks, the empty ones too.
RECURSIVE split(_)
split(str) ==
    LET breaks == {i \in DOMAIN str : str[i] = Newline}
    IN IF breaks = {} THEN <<str>>
       ELSE LET i == Min(breaks)
            IN <<SubSeq(str, 1, i - 1)>> \o split(SubSeq(str, i + 1, Len(str)))

\* len(line)
RECURSIVE len(_)
len(line) ==
    IF line = <<>> THEN 0
    ELSE TokenLen(Head(line)) + (IF Len(line) > 1 THEN 1 ELSE 0) + len(Tail(line))

\* option_pattern.match(line), lines 11 and 23.
option_pattern_match(line) == line # <<>> /\ Head(line) = "1."

\* option_pattern.sub('', line), line 31: the marker at the start goes.
option_pattern_sub(line) == IF option_pattern_match(line) THEN Tail(line) ELSE line

\* lines 26-27: a short line with a lead-in phrase.
is_common_intro(line) ==
    /\ \E i \in DOMAIN line : line[i] = "lead_in"
    /\ len(line) < IntroMaxLen

\* A mode that follows the line at hand only.
reading_options_per_line(is_reading_options, line) == option_pattern_match(line)

\* lines 23-24: the mode after the line has been tested.
reading_options(is_reading_options, line) ==
    is_reading_options \/ option_pattern_match(line)

\* The loop of lines 18-35 from line k on.
RECURSIVE classify(_, _, _, _, _)
classify(lines, k, is_reading_options, question_lines, option_lines) ==
    IF k > Len(lines)
    THEN [question_lines |-> question_lines, option_lines |-> option_lines]
    ELSE LET line == strip(lines[k])
             reading == reading_options(is_reading_options, line)
             clean_option == strip(option_pattern_sub(line))
         IN IF line = <<>>
            THEN classify(lines, k + 1, is_reading_options, question_lines,
                          option_lines)
            ELSE IF ~reading /\ is_common_intro(line)
            THEN classify(lines, k + 1, reading, question_lines, option_lines)
            ELSE IF reading
            THEN classify(lines, k + 1, reading, question_lines,
                          IF clean_option # <<>>
                          THEN Append(option_lines, clean_option)
                          ELSE option_lines)
            ELSE classify(lines, k + 1, reading, Append(question_lines, line),
                          option_lines)

\* " ".join(lines)
RECURSIVE join(_)
join(lines) == IF lines = <<>> THEN <<>> ELSE Head(lines) \o join(Tail(lines))

\* line 44: the header is cut out wherever it stands.
remove_header(str) == SelectSeq(str, LAMBDA t : t # "options:")

\* A parser whose result without options is the stem lines joined.
parse_question_text_joining(txt) ==
    LET c == classify(split(strip(txt)), 1, FALSE, <<>>, <<>>)
    IN [done |-> TRUE, question_lines |-> c.question_lines,
        option_lines |-> c.option_lines,
        question_text |-> strip(remove_header(strip(join(c.question_lines)))),
        options |-> c.option_lines]

\* parse_question_text, lines 4-49; question_lines and option_lines are the
\* two lists at the end of the loop.
parse_question_text(txt) ==
    LET c == classify(split(strip(txt)), 1, FALSE, <<>>, <<>>)
    IN IF c.option_lines = <<>>
       THEN [done |-> TRUE, question_lines |-> c.question_lines,
             option_lines |-> c.option_lines,
             question_text |-> strip(txt), options |-> <<>>]
       ELSE [done |-> TRUE, question_lines |-> c.question_lines,
             option_lines |-> c.option_lines,
             question_text |->
                strip(remove_header(strip(join(c.question_lines)))),
             options |-> c.option_lines]

\* The parser is called on the text.
Parse ==
    /\ ~parsed.done
    /\ parsed' = parse_question_text(text)
    /\ UNCHANGED <<text, ai, bot_vars>>

\* --------------------------------------------------- smart_parser_ai.py
\* The replacement fields str.format finds in PROMPT_TEMPLATE (lines 14-53):
\* the braces of the JSON sample at lines 24-33 open fields of their own,
\* before {text} at line 51.
TemplateFields == {"question_number_1", "question_number_2", "text"}

\* PROMPT_TEMPLATE.format(**given), line 65: KeyError for a field that is
\* not given.
format(fields, given) == IF fields \subseteq given THEN "ok" ELSE "KeyError"

\* What generate_content and json.loads give (lines 66-69): the call
\* raises, the answer is no JSON, or it is JSON of one of these shapes.
ResponseKinds == {"raises", "not_json", "number", "dict", "list"}

QuestionFields == {"question_number", "question_text", "options"}

\* lines 77-79: the three setdefault calls on the i-th item.
setdefaults(q, i) ==
    [f \in DOMAIN q \cup QuestionFields |->
        IF f \in DOMAIN q THEN q[f]
        ELSE IF f = "question_number" THEN i
        ELSE <<>>]

\* line 84: the whole text as the one question, without options.
default_result(txt) ==
    <<[question_number |-> 1, question_text |-> txt, options |-> <<>>]>>

\* parse_question_with_ai, lines 55-87; `key` is whether GEMINI_API_KEY is
\* set to something.
parse_question_with_ai(key, txt, response) ==
    IF ~key THEN <<>>
    ELSE IF format(TemplateFields, {"text"}) # "ok" THEN <<>>
    ELSE IF response.kind = "raises" THEN <<>>
    ELSE IF response.kind = "not_json" THEN default_result(txt)
    ELSE IF response.kind = "number" THEN <<>>
    ELSE [i \in DOMAIN response.items |-> setdefaults(response.items[i], i)]

\* The AI-backed parser is called on the text.
ParseWithAI ==
    /\ ~ai.done
    /\ ai' = [ai EXCEPT !.done = TRUE,
                        !.result = parse_question_with_ai(ai.key, text,
                                                          ai.response)]
    /\ UNCHANGED <<text, parsed, bot_vars>>

\* ------------------------------------------- handlers that interleave
\* handle_user_message for a new item, cut at its platform calls.  The
\* coroutine is suspended at the reply_text of line 511 ("received"), then at
\* the send of forward_to_admin_group_new (lines 524-536, "relay"), and is
\* "done" after lines 538-540.  sent_id is what the relay send returned, None
\* while there is none and when the send raised.
task(q_data, at, sent_id) == [q_data |-> q_data, at |-> at, sent_id |-> sent_id]

TaskEvent(kind, t) ==
    [kind |-> kind, from |-> t.q_data.user_id, chat |-> t.q_data.user_id,
     message_id |-> t.q_data.message_id, reply_to |-> None, arg |-> "new",
     resolved |-> t.q_data.question_id, user_id |-> None]

\* replies_data[question_id] is there (line 539 raises KeyError otherwise).
has_thread(rd, question_id) ==
    \E i \in DOMAIN rd : rd[i].question_id = question_id

\* lines 484-511, up to the await of reply_text: the item is stored and
\* saved, the known user is counted and saved, the answer is on its way.
SubmitBegin(u, message_type) ==
    /\ ~is_user_banned(banned_users, u)
    /\ LET q_data == question_record(uuid_next, u, message_type, chat_next[u])
           qs == Put(questions_data, uuid_next, q_data)
           us == message_touch(active_users, u)
       IN /\ questions_data' = qs
          /\ active_users' = us
          /\ disk' = save_users_data(save_data(disk, "questions", qs), us)
          /\ tasks' = tasks \cup {task(q_data, "received", None)}
    /\ Platform(u, Send(<<>>, u, u, "received", None, <<>>, {}), {})
    /\ last_event' = Event("user_message", u, u, None, "new_begin", uuid_next,
                           None)
    /\ uuid_next' = uuid_next + 1
    /\ UNCHANGED <<replies_data, banned_users, waiting_for_broadcast,
                   menu_shown>>

\* line 512 after the answer: line 522 puts the entry into replies_data in
\* memory, and the relay is sent and awaited.  The platform delivers it
\* (ok) or the call raises.
RelayBegin(t, ok) ==
    /\ t.at = "received"
    /\ replies_data' = Append(replies_data, new_thread(t.q_data))
    /\ LET out == IF ok
                  THEN Send(<<>>, None, ADMIN_GROUP_ID, "relay", None,
                            <<t.q_data.user_id>>, {})
                  ELSE Raised(<<>>, ADMIN_GROUP_ID, "relay", None)
       IN /\ Platform(None, out, {})
          /\ tasks' = (tasks \ {t}) \cup {task(t.q_data, "relay", LastId(out))}
    /\ last_event' = TaskEvent("relay_begin", t)
    /\ UNCHANGED <<questions_data, active_users, banned_users,
                   waiting_for_broadcast, disk, menu_shown, uuid_next>>

\* lines 538-542 after the send: the id is written into
\* replies_data[question_id] and the table is saved; without a sent message,
\* or when the entry is not in the table (KeyError, caught at line 541),
\* nothing is written.
RelayEnd(t) ==
    /\ t.at = "relay"
    /\ IF t.sent_id # None /\ has_thread(replies_data, t.q_data.question_id)
       THEN /\ replies_data' = record_relay(replies_data, t.q_data.question_id,
                                            t.sent_id)
            /\ disk' = save_data(disk, "replies", replies_data')
       ELSE UNCHANGED <<replies_data, disk>>
    /\ Platform(None, <<>>, {})
    /\ tasks' = (tasks \ {t}) \cup {task(t.q_data, "done", t.sent_id)}
    /\ last_event' = TaskEvent("relay_end", t)
    /\ UNCHANGED <<questions_data, active_users, banned_users,
                   waiting_for_broadcast, menu_shown, uuid_next>>

\* ------------------------------------------------------------ environment
\* The updates the platform delivers.  A private message may reply to any
\* earlier message of its chat, a staff-group message to any earlier message
\* of the group; FailSets are the cross-chat calls that raise.
FailSets == SUBSET (1..Cardinality(Users))

UserMessages(U, G, Types) ==
    \E u \in Users, message_type \in Types, reply_to \in 0..U + G,
       fails \in FailSets :
       /\ chat_next[u] <= U
       /\ chat_next[ADMIN_GROUP_ID] <= G
       /\ reply_to < chat_next[u]
       /\ HandleUserMessage(u, message_type, reply_to, fails)
       /\ UNCHANGED <<parser_vars, tasks>>

AdminMessages(G, As) ==
    \E a \in As, reply_to \in 0..G, fails \in FailSets :
       /\ chat_next[ADMIN_GROUP_ID] <= G
       /\ reply_to < chat_next[ADMIN_GROUP_ID]
       /\ HandleAdminMessage(a, reply_to, fails)
       /\ UNCHANGED <<parser_vars, tasks>>

\* A staff-group message during whose broadcast an answer into the group
\* raises.
AdminMessagesRaising(G, As) ==
    \E a \in As, reply_to \in 0..G, fails \in FailSets, at \in RaisePoints :
       /\ chat_next[ADMIN_GROUP_ID] <= G
       /\ reply_to < chat_next[ADMIN_GROUP_ID]
       /\ HandleAdminMessageRaising(a, reply_to, fails, at)
       /\ UNCHANGED <<parser_vars, tasks>>

Starts(U) ==
    \E u \in Users :
       chat_next[u] <= U /\ StartCommand(u) /\ UNCHANGED <<parser_vars, tasks>>

ButtonClicks ==
    \E u \in Users, data \in Buttons :
       ButtonHandler(u, data) /\ UNCHANGED <<parser_vars, tasks>>

BroadcastCommands(G, As) ==
    \E a \in As :
       /\ chat_next[ADMIN_GROUP_ID] <= G
       /\ BroadcastCommand(a)
       /\ UNCHANGED <<parser_vars, tasks>>

BanCommands(G, As) ==
    \E a \in As, mode \in CommandModes, user_id \in Users :
       /\ chat_next[ADMIN_GROUP_ID] <= G
       /\ BanCommand(a, mode, user_id)
       /\ UNCHANGED <<parser_vars, tasks>>

UnbanCommands(G, As) ==
    \E a \in As, mode \in CommandModes, user_id \in Users :
       /\ chat_next[ADMIN_GROUP_ID] <= G
       /\ UnbanCommand(a, mode, user_id)
       /\ UNCHANGED <<parser_vars, tasks>>

StatsCommands(G, As) ==
    \E a \in As :
       /\ chat_next[ADMIN_GROUP_ID] <= G
       /\ StaffCommand("stats", a, ADMIN_GROUP_ID, "no_args", None,
                       "member", "none", Document({}, FALSE, <<>>))
       /\ UNCHANGED <<parser_vars, tasks>>

BannedListCommands(G, As) ==
    \E a \in As :
       /\ chat_next[ADMIN_GROUP_ID] <= G
       /\ StaffCommand("banned", a, ADMIN_GROUP_ID, "no_args", None,
                       "member", "none", Document({}, FALSE, <<>>))
       /\ UNCHANGED <<parser_vars, tasks>>

ExportCommands(G, As) ==
    \E a \in As :
       /\ chat_next[ADMIN_GROUP_ID] <= G
       /\ ExportCommand(a)
       /\ UNCHANGED <<parser_vars, tasks>>

\* Two threads of an earlier run of the bot that share identifiers, in
\* either order: 1 and 3 on the staff side, 2 on the user side.
ThreadA ==
    [question_id |-> 101, user_id |-> 1, user_message_id |-> 1,
     admin_message_id |-> 1,
     admin_replies |-> <<[admin_message_id |-> 2, user_reply_message_id |-> 2]>>,
     admin_thread_message_ids |-> <<3>>]

ThreadB ==
    [question_id |-> 102, user_id |-> 2, user_message_id |-> 1,
     admin_message_id |-> 3,
     admin_replies |-> <<[admin_message_id |-> 2, user_reply_message_id |-> 2]>>,
     admin_thread_message_ids |-> <<1>>]

\* The documents members upload: a correlation map under a name with
\* "replies", the same bytes cut short, the same under a name with none of
\* the four words, and a known-users table under a name with two of them.
Uploads ==
    {Document({"replies"}, TRUE, <<ThreadA, ThreadB>>),
     Document({"replies"}, TRUE, <<ThreadB, ThreadA>>),
     Document({"replies"}, FALSE, <<>>),
     Document({}, TRUE, <<ThreadA, ThreadB>>),
     Document({"users", "banned"}, TRUE,
              Put(EmptyMap, 2, [message_count |-> 0, last_active |-> 1]))}

\* The documents the export that has just been answered sent.
Exported ==
    IF last_event.kind # "export_command" THEN {}
    ELSE {exported(disk, file) :
            file \in {f \in Files :
                        \E k \in DOMAIN sent : sent[k].kind = "document_" \o f}}

ImportCommands(G, As, Docs) ==
    \E a \in As, is_admin \in AdminChecks, reply \in ImportReplies,
       doc \in Docs \cup Exported \cup {Document({}, FALSE, <<>>)} :
       /\ chat_next[ADMIN_GROUP_ID] <= G
       /\ reply = "export" <=> doc \in Exported
       /\ reply = "none" <=> doc = Document({}, FALSE, <<>>)
       /\ ImportCommand(a, is_admin, reply, doc)
       /\ UNCHANGED <<parser_vars, tasks>>

\* A staff command sent in a private chat.
OutsideCommands(U) ==
    \E u \in Users, command \in StaffCommands :
       /\ chat_next[u] <= U
       /\ StaffCommand(command, u, u, "args_id", u, "member", "none",
                       Document({}, FALSE, <<>>))
       /\ UNCHANGED <<parser_vars, tasks>>

Restarts ==
    \E damage \in {{}} \cup {{f} : f \in disk.exists \ disk.malformed} :
       Restart(damage) /\ UNCHANGED <<parser_vars, tasks>>

\* The handlers of the conversation, the menu and the ban list.
Next ==
    \/ Starts(MaxUserMsgId)
    \/ ButtonClicks
    \/ UserMessages(MaxUserMsgId, MaxGroupMsgId, MsgTypes)
    \/ AdminMessages(MaxGroupMsgId, Admins)
    \/ BroadcastCommands(MaxGroupMsgId, Admins)
    \/ BanCommands(MaxGroupMsgId, Admins)
    \/ UnbanCommands(MaxGroupMsgId, Admins)

Spec == Init /\ [][Next]_vars

\* The conversation: submissions of both users, the replies of one staff
\* member and the users' replies to them.
RelayNext ==
    \/ UserMessages(RelayMaxUserMsgId, RelayMaxGroupMsgId, MsgTypes)
    \/ AdminMessages(RelayMaxGroupMsgId, {Min(Admins)})

SpecRelay == Init /\ [][RelayNext]_vars

\* Moderation: the bans of one staff member and everything a user can
\* send (text messages for the new items).
BanNext ==
    \/ Starts(BanMaxUserMsgId)
    \/ ButtonClicks
    \/ UserMessages(BanMaxUserMsgId, BanMaxGroupMsgId, {"text"})
    \/ BanCommands(BanMaxGroupMsgId, {Min(Admins)})
    \/ UnbanCommands(BanMaxGroupMsgId, {Min(Admins)})

SpecBan == Init /\ [][BanNext]_vars

\* The documents: submissions, staff commands inside and outside the staff
\* group, export, import and restarts.
FilesNext ==
    \/ UserMessages(FilesMaxUserMsgId, FilesMaxGroupMsgId, {"text"})
    \/ ExportCommands(FilesMaxGroupMsgId, {Min(Admins)})
    \/ ImportCommands(FilesMaxGroupMsgId, {Min(Admins)}, Uploads)
    \/ Restarts

SpecFiles == Init /\ [][FilesNext]_vars

\* The staff commands, sent inside and outside the staff group.
GateNext ==
    \/ Starts(MaxUserMsgId)
    \/ UserMessages(MaxUserMsgId, MaxGroupMsgId, {"text"})
    \/ StatsCommands(MaxGroupMsgId, {Min(Admins)})
    \/ BannedListCommands(MaxGroupMsgId, {Min(Admins)})
    \/ BroadcastCommands(MaxGroupMsgId, {Min(Admins)})
    \/ BanCommands(MaxGroupMsgId, {Min(Admins)})
    \/ OutsideCommands(MaxUserMsgId)

SpecGate == Init /\ [][GateNext]_vars

\* Lookups in a correlation map that was imported.
LookupNext ==
    \/ UserMessages(LookupMaxUserMsgId, LookupMaxGroupMsgId, {"text"})
    \/ AdminMessages(LookupMaxGroupMsgId, {Min(Admins)})
    \/ ImportCommands(LookupMaxGroupMsgId, {Min(Admins)}, Uploads)

SpecLookup == Init /\ [][LookupNext]_vars

\* The broadcast session of two staff members, with the users' submissions
\* and the staff's replies around it.
BroadcastNext ==
    \/ UserMessages(BroadcastMaxUserMsgId, BroadcastMaxGroupMsgId, {"text"})
    \/ BroadcastCommands(BroadcastMaxGroupMsgId, Admins)
    \/ AdminMessages(BroadcastMaxGroupMsgId, Admins)
    \/ AdminMessagesRaising(BroadcastMaxGroupMsgId, Admins)

SpecBroadcast == Init /\ [][BroadcastNext]_vars

\* Broadcasts to users known through /start, through a submission or
\* through both, with copies that raise and answers that raise.
DeliveryNext ==
    \/ Starts(DeliveryMaxUserMsgId)
    \/ UserMessages(DeliveryMaxUserMsgId, DeliveryMaxGroupMsgId, {"text"})
    \/ BroadcastCommands(DeliveryMaxGroupMsgId, {Min(Admins)})
    \/ AdminMessages(DeliveryMaxGroupMsgId, {Min(Admins)})
    \/ AdminMessagesRaising(DeliveryMaxGroupMsgId, {Min(Admins)})

SpecDelivery == Init /\ [][DeliveryNext]_vars

\* Two users with one submission each, a staff reply to each, and the users'
\* replies to what the bot sent them.
IsolationNext ==
    \/ UserMessages(IsolationMaxUserMsgId, IsolationMaxGroupMsgId, {"text"})
    \/ AdminMessages(IsolationMaxGroupMsgId, {Min(Admins)})

SpecIsolation == Init /\ [][IsolationNext]_vars

\* Handlers that interleave at their platform calls: submissions cut at
\* their awaits, with staff replies and /import of a ban list between the
\* pieces.  /import changes the tables in lines 348-356, between which it
\* awaits nothing, so it is one step.
SubmissionsBegin(U) ==
    \E u \in Users :
       /\ chat_next[u] <= U
       /\ Cardinality(tasks) < MaxSubmissions
       /\ SubmitBegin(u, "text")
       /\ UNCHANGED parser_vars

RelaysBegin(G) ==
    \E t \in tasks, ok \in BOOLEAN :
       /\ chat_next[ADMIN_GROUP_ID] <= G
       /\ RelayBegin(t, ok)
       /\ UNCHANGED parser_vars

RelaysEnd == \E t \in tasks : RelayEnd(t) /\ UNCHANGED parser_vars

BanLists == {Document({"banned"}, TRUE, EmptyMap)}

InterleavedNext ==
    \/ SubmissionsBegin(InterleavedMaxUserMsgId)
    \/ RelaysBegin(InterleavedMaxGroupMsgId)
    \/ RelaysEnd
    \/ AdminMessages(InterleavedMaxGroupMsgId, {Min(Admins)})
    \/ ImportCommands(InterleavedMaxGroupMsgId, {Min(Admins)}, BanLists)

SpecInterleaved == Init /\ [][InterleavedNext]_vars

\* The users' side: /start, submissions and replies to the bot's messages,
\* while a staff member bans and unbans.
UsersNext ==
    \/ Starts(UsersMaxUserMsgId)
    \/ UserMessages(UsersMaxUserMsgId, UsersMaxGroupMsgId, {"text"})
    \/ BanCommands(UsersMaxGroupMsgId, {Min(Admins)})

SpecUsers == Init /\ [][UsersNext]_vars

\* The parser on every text of up to MaxTextLen tokens.
Texts == UNION {[1..n -> Tokens] : n \in 0..MaxTextLen}

ParserInit == BotInit /\ text \in Texts /\ parsed = NotParsed /\ ai = NotAsked

ParserNext == Parse

SpecParser == ParserInit /\ [][ParserNext]_vars

\* The AI-backed parser on every text of up to MaxPromptLen tokens, with
\* and without key, under every response.
Prompts == UNION {[1..n -> Tokens] : n \in 0..MaxPromptLen}

Responses ==
    {[kind |-> k, items |-> <<>>] : k \in ResponseKinds \ {"dict"}}
    \cup {[kind |-> "dict", items |-> <<[question_text |-> <<"word">>]>>],
          [kind |-> "list",
           items |-> <<[question_number |-> 1, question_text |-> <<"word">>,
                        options |-> <<<<"word">>>>],
                       [question_text |-> <<"word">>]>>]}

AIInit ==
    /\ BotInit
    /\ text \in Prompts
    /\ parsed = NotParsed
    /\ ai \in {[key |-> k, response |-> r, done |-> FALSE, result |-> <<>>] :
                 k \in BOOLEAN, r \in Responses}

AINext == ParseWithAI

SpecAI == AIInit /\ [][AINext]_vars

\* ======================================================== the claims
\* What the formulas read off the state.
ThreadIndex(q) == First({i \in DOMAIN replies_data : replies_data[i].question_id = q})

HasThread(q) == ThreadIndex(q) # 0

Calls(out, kind) == {k \in DOMAIN out : out[k].kind = kind}

RelaySucceeded(out) == \E k \in Calls(out, "relay") : out[k].ok

NewItem(e) == e.kind = "user_message" /\ e.arg = "new"

UserReply(e) == e.kind = "user_message" /\ e.arg = "reply"

StaffReply(e) == e.kind = "admin_message" /\ e.arg = "reply"

\* Every staff-side identifier a thread holds.
StaffIds(t) ==
    ({t.admin_message_id} \ {None})
    \cup Elems(t.admin_thread_message_ids)
    \cup {t.admin_replies[k].admin_message_id : k \in DOMAIN t.admin_replies}

\* Every user-side copy id a thread holds.
UserCopyIds(t) ==
    {t.admin_replies[k].user_reply_message_id : k \in DOMAIN t.admin_replies}

\* ----------------------------------------------------------------- C1
\* C1 (as claimed): replies_data holds an entry for a submission id iff the
\* submission is in questions_data and its relay to the staff group has
\* succeeded; when the handler of a new item ends, the entry of that item
\* exists exactly if the relay call returned.
C1_ThreadIffRelayed ==
    /\ \A i \in DOMAIN replies_data :
          replies_data[i].question_id \in DOMAIN questions_data
    /\ NewItem(last_event) =>
          (HasThread(last_event.resolved) <=> RelaySucceeded(sent))

\* ----------------------------------------------------------------- C2
\* C2: no staff-side message identifier (a thread's admin_message_id, an
\* entry of its admin_thread_message_ids, an admin_replies[].admin_message_id)
\* is held by two different threads.
C2_StaffIdsUnique ==
    \A i, j \in DOMAIN replies_data :
        i # j => StaffIds(replies_data[i]) \cap StaffIds(replies_data[j]) = {}

\* Two relayed threads, one of them with a staff reply and a user reply.
C2_Witness ==
    \E i, j \in DOMAIN replies_data :
        /\ i # j
        /\ replies_data[i].admin_message_id # None
        /\ replies_data[j].admin_message_id # None
        /\ Len(replies_data[i].admin_replies) > 0
        /\ Len(replies_data[i].admin_thread_message_ids) > 0

\* ----------------------------------------------------------------- C3
\* C3 (as claimed): when a handler has just recorded an identifier in thread
\* T, the lookup of its side resolves that identifier to T: the relay id, the
\* staff message id and the staff-side copy id through the lookup of
\* handle_admin_reply, the user-side copy id through that of
\* handle_user_reply.
C3_ResolveInverse ==
    LET T == ThreadIndex(last_event.resolved)
    IN /\ (NewItem(last_event) /\ RelaySucceeded(sent)) =>
             \A k \in Calls(sent, "relay") :
                admin_lookup(replies_data, sent[k].id) = T
       /\ (StaffReply(last_event) /\ Calls(sent, "reply_sent") # {}) =>
             /\ admin_lookup(replies_data, last_event.message_id) = T
             /\ \A k \in Calls(sent, "staff_copy") :
                   user_lookup(replies_data, sent[k].id) = T
       /\ (UserReply(last_event) /\ Calls(sent, "reply_ok") # {}) =>
             \A k \in Calls(sent, "user_copy") :
                admin_lookup(replies_data, sent[k].id) = T

\* ----------------------------------------------------------------- C4
\* C4: whenever a staff reply resolves to thread T, its copy is one call,
\* into the chat of T's user_id, as a reply to T's user_message_id; no call of
\* the handler goes to another user's chat.
C4_CopyGoesToAuthor ==
    (StaffReply(last_event) /\ last_event.resolved # None) =>
        LET t == replies_data[ThreadIndex(last_event.resolved)]
        IN /\ Cardinality(Calls(sent, "staff_copy")) = 1
           /\ \A k \in DOMAIN sent :
                 IF sent[k].kind = "staff_copy"
                 THEN sent[k].to = t.user_id /\ sent[k].reply_to = t.user_message_id
                 ELSE sent[k].to = ADMIN_GROUP_ID

\* A second round: the staff member answers the copy of a user's reply, and
\* the answer is delivered.
C4_Witness ==
    /\ StaffReply(last_event) /\ last_event.resolved # None
    /\ last_event.reply_to \in
          Elems(replies_data[ThreadIndex(last_event.resolved)]
                   .admin_thread_message_ids)
    /\ \E k \in Calls(sent, "staff_copy") : sent[k].ok

\* ----------------------------------------------------------------- C5
\* The user is in the ban table when the handler starts.
Banned(u) == u \in DOMAIN banned_users

ToStaff(out) == {k \in DOMAIN out : out[k].to = ADMIN_GROUP_ID}

\* C5: while u is in the ban table (from a successful ban_user(u) to the next
\* successful unban_user(u)), every private message of u, a new item or a
\* reply to a message of the bot, adds no submission, opens no thread, sends
\* nothing to the staff group, and u is sent the ban notice.
C5_BannedRejected ==
    [][\A u \in Users :
         (Banned(u) /\ last_event'.kind = "user_message" /\ last_event'.from = u)
         => /\ questions_data' = questions_data
            /\ replies_data' = replies_data
            /\ ToStaff(sent') = {}
            /\ \E k \in Calls(sent', "ban_notice") : sent'[k].to = u /\ sent'[k].ok
      ]_vars

\* A banned user who had a submission on file has replied to a message of
\* the bot and was turned away.
C5_Witness ==
    /\ last_event.kind = "user_message" /\ last_event.arg = "banned"
    /\ last_event.from \in DOMAIN banned_users
    /\ last_event.reply_to \in bot_ids[last_event.from]
    /\ \E q \in DOMAIN questions_data :
          questions_data[q].user_id = last_event.from

\* ----------------------------------------------------------------- C6
\* C6: /unban naming a user who is not in the ban table answers that the user
\* is not banned and leaves the ban table, in memory and on disk, and every
\* other table as they were.
C6_UnbanNotBanned ==
    [][(/\ last_event'.kind = "unban_command"
        /\ last_event'.user_id # None
        /\ ~Banned(last_event'.user_id))
       => /\ Len(sent') = 1
          /\ sent'[1].kind = "not_banned"
          /\ sent'[1].to = ADMIN_GROUP_ID
          /\ sent'[1].info = <<last_event'.user_id>>
          /\ UNCHANGED <<tables, waiting_for_broadcast, disk>>
      ]_vars

\* /unban of a user who is not banned while another user is.
C6_Witness ==
    /\ last_event.kind = "unban_command"
    /\ last_event.user_id # None
    /\ Calls(sent, "not_banned") # {}
    /\ DOMAIN banned_users # {}
    /\ DOMAIN active_users # {}

\* ----------------------------------------------------------------- C7
\* C7 (as claimed): while u is in the ban table no update from u, /start, a
\* menu button, a new message or a reply, changes the known-users, the
\* submissions or the correlation table.
C7_BannedNothingProcessed ==
    [][\A u \in Users :
         (/\ Banned(u)
          /\ last_event'.from = u
          /\ last_event'.kind \in {"start", "button", "user_message"})
         => UNCHANGED <<active_users, questions_data, replies_data>>
      ]_vars

\* ----------------------------------------------------------------- C8
AllStaffIds == UNION {StaffIds(replies_data[i]) : i \in DOMAIN replies_data}

AllUserCopyIds == UNION {UserCopyIds(replies_data[i]) : i \in DOMAIN replies_data}

\* The update is a staff-group message, outside a broadcast, that replies to
\* no tracked staff-side identifier.
StaffMiss(e) ==
    /\ e.kind = "admin_message"
    /\ ~waiting(waiting_for_broadcast, e.from)
    /\ e.reply_to \notin AllStaffIds

\* The update is a reply of a user who is not banned to a message of the bot
\* that is no tracked user-side identifier.
UserMiss(e) ==
    /\ e.kind = "user_message"
    /\ ~Banned(e.from)
    /\ e.reply_to \in bot_ids[e.from]
    /\ e.reply_to \notin AllUserCopyIds

\* C8: a resolution miss on either side makes no call to any chat and changes
\* no table, in memory or on disk.
C8_MissIsSilent ==
    [][(StaffMiss(last_event') \/ UserMiss(last_event'))
       => /\ sent' = <<>>
          /\ UNCHANGED <<tables, waiting_for_broadcast, disk>>
      ]_vars

\* A user has replied to a message of the bot that no thread tracks (the
\* confirmation of receipt, say) while a round of some thread is on record.
C8_Witness ==
    /\ UserReply(last_event) /\ last_event.resolved = None
    /\ last_event.reply_to \in bot_ids[last_event.from]
    /\ AllUserCopyIds # {}
    /\ sent = <<>>

\* ----------------------------------------------------------------- C9
Last(seq) == seq[Len(seq)]

C10_RelayFailure ==
    [][(NewItem(last_event') /\ ~RelaySucceeded(sent'))
       => /\ replies_data' = replies_data
          /\ \E k \in DOMAIN sent' :
                sent'[k].to = last_event'.from /\ sent'[k].kind # "received"
          /\ Cardinality({k \in ToStaff(sent') : ~sent'[k].ok}) = 1
      ]_vars

\* ---------------------------------------------------------------- C11
ToUser(out, u) == {k \in DOMAIN out : out[k].to = u /\ out[k].ok}

\* C11 (as claimed): every private message of a non-banned user that
\* handle_user_message takes up, a new item or a reply to a message of the
\* bot, resolved or not, forwarded or not, ends with at least one message
\* sent back to that user.
C11_UserAlwaysAnswered ==
    (last_event.kind = "user_message" /\ last_event.arg \in {"new", "reply"})
    => ToUser(sent, last_event.from) # {}

\* ---------------------------------------------------------------- C12
IsPrefix(a, b) == Len(a) <= Len(b) /\ \A k \in DOMAIN a : a[k] = b[k]

\* C12: in every step of a handler other than /import the threads on record
\* stay, in their order and with their submission, user and user message; a
\* relay id that is set does not change; the rounds of admin_replies and the
\* ids of admin_thread_message_ids stay in place, new ones after them.
C12_CorrelationMonotone ==
    [][/\ Len(replies_data) <= Len(replies_data')
       /\ \A i \in DOMAIN replies_data :
             LET t == replies_data[i]
                 n == replies_data'[i]
             IN /\ n.question_id = t.question_id
                /\ n.user_id = t.user_id
                /\ n.user_message_id = t.user_message_id
                /\ t.admin_message_id # None
                      => n.admin_message_id = t.admin_message_id
                /\ IsPrefix(t.admin_replies, n.admin_replies)
                /\ IsPrefix(t.admin_thread_message_ids, n.admin_thread_message_ids)
      ]_vars

\* A thread with a reply of its user on record has got its second round.
C12_Witness ==
    /\ StaffReply(last_event) /\ Calls(sent, "reply_sent") # {}
    /\ \E i \in DOMAIN replies_data :
          /\ replies_data[i].question_id = last_event.resolved
          /\ Len(replies_data[i].admin_replies) >= 2
          /\ Len(replies_data[i].admin_thread_message_ids) >= 1

\* ---------------------------------------------------------------- C14
\* C14 (as claimed): when a handler has ended, each of the four tables in
\* memory is what loading its document from disk gives.
C14_TablesFlushed ==
    /\ questions_data = load_data(disk, "questions")
    /\ replies_data = load_data(disk, "replies")
    /\ active_users = load_users_data(disk)
    /\ banned_users = load_data(disk, "banned")

\* ---------------------------------------------------------------- C13
\* The threads that hold the id on the staff side (relay id, staff message
\* ids of admin_replies, admin_thread_message_ids) and on the user side
\* (user_reply_message_id).  replies_data keeps the threads in the order
\* they were opened.
StaffHolders(id) ==
    {i \in DOMAIN replies_data : id \in StaffIds(replies_data[i])}

UserHolders(id) ==
    {i \in DOMAIN replies_data : id \in UserCopyIds(replies_data[i])}

\* C13 (as claimed): a reply to an identifier that more than one thread
\* holds resolves, on either side, to the earliest-opened of those threads.
C13_EarliestThread ==
    [][/\ (StaffReply(last_event')
           /\ Cardinality(StaffHolders(last_event'.reply_to)) > 1)
          => last_event'.resolved =
                replies_data[Min(StaffHolders(last_event'.reply_to))].question_id
       /\ (UserReply(last_event')
           /\ Cardinality(UserHolders(last_event'.reply_to)) > 1)
          => last_event'.resolved =
                replies_data[Min(UserHolders(last_event'.reply_to))].question_id
      ]_vars

\* ---------------------------------------------------------------- C15
\* The update just handled is an /import that replies to one of the
\* documents the /export before it has sent.
ImportOfExport(before, e) ==
    /\ before.kind = "export_command"
    /\ e.kind = "import_command"
    /\ e.arg = "export"

\* C15 (as claimed): /export followed by /import of one of the exported
\* documents leaves every table in memory and every document on disk as it
\* was before the export.
C15_ExportImportNoOp ==
    [][/\ last_event'.kind = "export_command"
          => (tables' = tables /\ disk' = disk)
       /\ ImportOfExport(last_event, last_event')
          => (tables' = tables /\ disk' = disk)
      ]_vars

\* ---------------------------------------------------------------- C16
\* The update is an /import that replies to a message with a document.
ImportOfDocument(e) == e.kind = "import_command" /\ e.arg # "none"

\* The name of the document contains a table name and its content parses.
Importable(doc) == doc.name \cap Files # {} /\ doc.json

\* What is on disk parses back into the table: the content of the document,
\* or the empty table when the document is missing or does not parse.
OnDisk(d, file) ==
    IF file \in d.exists \ d.malformed THEN d[file] ELSE Empty(file)

\* One of the documents the name matches, and no other, now has the uploaded
\* content, and each of the four tables is what its document holds.
OverwrittenAndReloaded(doc) ==
    /\ \E file \in doc.name \cap Files :
          disk' = [disk EXCEPT ![file] = doc.data, !.exists = @ \cup {file},
                               !.malformed = @ \ {file}]
    /\ questions_data' = OnDisk(disk', "questions")
    /\ replies_data' = OnDisk(disk', "replies")
    /\ active_users' = OnDisk(disk', "users")
    /\ banned_users' = OnDisk(disk', "banned")

C17_MalformedLoadsEmpty ==
    [][last_event'.kind = "restart"
       => /\ questions_data' = OnDisk(disk', "questions")
          /\ replies_data' = OnDisk(disk', "replies")
          /\ active_users' = OnDisk(disk', "users")
          /\ banned_users' = OnDisk(disk', "banned")
      ]_vars

\* The bot has started over a questions document that held a submission and
\* no longer parses: the questions table is empty, the users table is not.
C17_Witness ==
    /\ last_event.kind = "restart"
    /\ "questions" \in disk.exists \cap disk.malformed
    /\ disk.questions # EmptyMap
    /\ questions_data = EmptyMap
    /\ "users" \notin disk.malformed
    /\ active_users # EmptyMap

\* ---------------------------------------------------------------- C18
\* The update is one of the seven staff commands.
IsStaffCommand(e) == e.kind \in {c \o "_command" : c \in StaffCommands}

\* C18: a staff command sent in a chat other than the staff group changes
\* no table, awaits no broadcast and sends nothing.
C18_OutsideGroupIgnored ==
    [][(IsStaffCommand(last_event') /\ last_event'.chat # ADMIN_GROUP_ID)
       => /\ sent' = <<>>
          /\ tables' = tables
          /\ waiting_for_broadcast' = waiting_for_broadcast
          /\ disk' = disk
      ]_vars

\* A user has sent /banned in the private chat while somebody is banned and
\* a submission is stored: the command got no answer.
C18_Witness ==
    /\ last_event.kind = "banned_command"
    /\ last_event.chat \in Users
    /\ DOMAIN banned_users # {}
    /\ DOMAIN questions_data # {}
    /\ sent = <<>>

\* ---------------------------------------------------------------- C19
\* The stem the classification leaves: the stem lines joined, the header
\* cut out, stripped.
ClassifiedStem == strip(remove_header(strip(join(parsed.question_lines))))

\* C19 (as claimed): for a text that is not empty the parser never returns
\* an empty stem; when the stem is empty after classification and stripping,
\* the result is the whole input as the stem, with no options.
C19_NeverEmptyStem ==
    (parsed.done /\ strip(text) # <<>>)
    => /\ parsed.question_text # <<>>
       /\ ClassifiedStem = <<>>
          => /\ parsed.question_text \in {text, strip(text)}
             /\ parsed.options = <<>>

\* ---------------------------------------------------------------- C20
\* The lines of the text, and the place of the first one that matches the
\* option-marker pattern (one past the end when none does).
InputLines == split(strip(text))

FirstOptionLine ==
    Min({k \in DOMAIN InputLines : option_pattern_match(strip(InputLines[k]))}
        \cup {Len(InputLines) + 1})

NonBlank(lines) == SelectSeq(lines, LAMBDA l : strip(l) # <<>>)

LinesBefore == SubSeq(InputLines, 1, FirstOptionLine - 1)

\* The first matching line and every line after it, the marker at the start
\* taken off, the empty results left out.
OptionsFrom ==
    NonBlank([k \in 1..(Len(InputLines) - FirstOptionLine + 1) |->
                strip(option_pattern_sub(strip(InputLines[FirstOptionLine + k - 1])))])

\* C20 (as claimed): every non-blank line before the first line matching the
\* option-marker pattern is a stem line; that line and every non-blank line
\* after it give the options, in order, marker stripped, empty results
\* omitted, whether or not the later lines match.
C20_StickyClassification ==
    parsed.done
    => /\ parsed.question_lines = NonBlank(LinesBefore)
       /\ parsed.option_lines = OptionsFrom

\* C20 (amended): the same, except that a line before the first matching
\* line which holds a lead-in phrase and is shorter than 35 characters is
\* dropped and is no stem line.
C20_StickyExceptLeadIns ==
    parsed.done
    => /\ parsed.question_lines =
             SelectSeq(NonBlank(LinesBefore), LAMBDA l : ~is_common_intro(strip(l)))
       /\ parsed.option_lines = OptionsFrom

\* A text with a stem line, an option line and a later line without marker
\* has been parsed: the later line is the second option.
C20_Witness ==
    /\ parsed.done
    /\ text = <<"word", "nl", "1.", "word", "nl", "long_word">>
    /\ parsed.question_lines = << <<"word">> >>
    /\ parsed.options = << <<"word">>, <<"long_word">> >>

\* ---------------------------------------------------------------- C21
\* No line of the text matches the option-marker pattern and the text holds
\* no options header.
PlainText ==
    /\ FirstOptionLine > Len(InputLines)
    /\ \A i \in DOMAIN text : text[i] # "options:"

\* C21 (as claimed): for a text without option-marker line and without
\* options header the parser returns the text itself as the stem and no
\* options, lead-in phrases or not.
C21_PlainTextUnchanged ==
    (parsed.done /\ PlainText)
    => parsed.question_text = text /\ parsed.options = <<>>

\* C21 (amended): the stem is the text without the white space at its two
\* ends.
C21_PlainTextStripped ==
    (parsed.done /\ PlainText)
    => parsed.question_text = strip(text) /\ parsed.options = <<>>

\* A text of a short lead-in line and a plain line, with a line break at
\* the end, has been parsed: the lead-in is still in the stem.
C21_Witness ==
    /\ parsed.done
    /\ text = <<"lead_in", "nl", "word", "nl">>
    /\ parsed.question_text = <<"lead_in", "nl", "word">>
    /\ parsed.question_lines = << <<"word">> >>
    /\ parsed.options = <<>>

\* ---------------------------------------------------------------- C22
\* The call has failed: no key, the prompt or the model call raised, or the
\* answer is no JSON.
AIFailed ==
    \/ ~ai.key
    \/ format(TemplateFields, {"text"}) # "ok"
    \/ ai.response.kind \in {"raises", "not_json"}

\* C22 (as claimed): every failure of the AI-backed parser gives the same
\* default: the whole text as the stem, no options.
C22_FailureGivesDefault ==
    (ai.done /\ AIFailed)
    => ai.result =
          <<[question_number |-> 1, question_text |-> text, options |-> <<>>]>>

\* ---------------------------------------------------------------- C23
\* The update is an interaction of a user that a handler has taken up:
\* /start, a new item, or a reply to a message of the bot.
HandledInteraction(e) ==
    \/ e.kind = "start"
    \/ NewItem(e)
    \/ UserReply(e)

\* C23 (as claimed): the first handled interaction of a user creates the
\* known-user record, every later one gives it a later last_active and a
\* message_count higher by one, and no handler other than /import removes a
\* record.
C23_EveryInteractionCounted ==
    [][/\ HandledInteraction(last_event')
          => LET u == last_event'.from
             IN /\ u \in DOMAIN active_users'
                /\ u \in DOMAIN active_users
                   => /\ active_users'[u].last_active > active_users[u].last_active
                      /\ active_users'[u].message_count =
                            active_users[u].message_count + 1
       /\ last_event'.kind \notin {"import_command", "restart"}
          => DOMAIN active_users \subseteq DOMAIN active_users'
      ]_vars

\* ---------------------------------------------------------------- C24
\* The update is a private message of a user who is not banned.
Accepted(e) == e.kind = "user_message" /\ ~Banned(e.from)

\* C24: an accepted private message that does not reply to a message of the
\* bot adds exactly one submission, under an id the table did not hold, for
\* that message of that user; no submission already there changes; a reply
\* to a message of the bot adds none.
C24_OneSubmissionPerItem ==
    [][Accepted(last_event')
       => IF last_event'.reply_to \in bot_ids[last_event'.from]
          THEN questions_data' = questions_data
          ELSE /\ \E id \in DOMAIN questions_data' \ DOMAIN questions_data :
                     /\ DOMAIN questions_data' = DOMAIN questions_data \cup {id}
                     /\ questions_data'[id].user_id = last_event'.from
                     /\ questions_data'[id].message_id = last_event'.message_id
               /\ \A id \in DOMAIN questions_data :
                     questions_data'[id] = questions_data[id]
      ]_vars

\* A user's second item, sent as a reply to the user's own first message,
\* is stored beside the first.
C24_Witness ==
    /\ NewItem(last_event)
    /\ last_event.reply_to # None
    /\ Cardinality(DOMAIN questions_data) = 2
    /\ \A id \in DOMAIN questions_data :
          questions_data[id].user_id = last_event.from

\* ---------------------------------------------------------------- C25
\* The staff member is awaited for the content of a broadcast.
Awaiting(a) == waiting(waiting_for_broadcast, a)

\* The flags of the staff members other than a stay as they are.
OthersKeepFlag(a) ==
    \A b \in Admins \ {a} :
       waiting(waiting_for_broadcast', b) = waiting(waiting_for_broadcast, b)

\* The users the handler's calls copied the message to, or tried to.
BroadcastTargets(out) == {out[k].to : k \in Calls(out, "broadcast")}

\* One step of the session as the claim has it.
SessionStep ==
    LET e == last_event'
        a == last_event'.from
    IN /\ e.kind = "broadcast_command"
          => waiting(waiting_for_broadcast', a) /\ OthersKeepFlag(a)
       /\ (e.kind = "admin_message" /\ Awaiting(a))
          => /\ BroadcastTargets(sent') =
                   get_all_user_ids(questions_data, active_users)
             /\ ~waiting(waiting_for_broadcast', a)
             /\ OthersKeepFlag(a)
       /\ (e.kind = "admin_message" /\ ~Awaiting(a))
          => /\ BroadcastTargets(sent') = {}
             /\ waiting(waiting_for_broadcast', a) = Awaiting(a)
             /\ OthersKeepFlag(a)

\* C25 (as claimed): /broadcast by a sets a's flag only; the next staff-group
\* message of a is copied to every known user and a's flag is idle after
\* it, however handle_broadcast_message ends; a message of a staff member
\* who is not awaited is not broadcast and changes no flag.
C25_BroadcastSession == [][SessionStep]_vars

\* ---------------------------------------------------------------- C26
\* The submissions the document on disk holds.
StoredOnDisk == DOMAIN OnDisk(disk, "questions")

C27_ReplyStaysWithAuthor ==
    (UserReply(last_event) /\ last_event.resolved # None)
    => replies_data[ThreadIndex(last_event.resolved)].user_id = last_event.from

\* ---------------------------------------------------------------- C28
\* The copies of the user's reply that the last handler delivered into the
\* staff group.
DeliveredCopies ==
    {sent[k].id : k \in {j \in Calls(sent, "user_copy") : sent[j].ok}}

\* C28: whenever handle_user_reply has delivered the copy of a user's reply
\* into the staff group, the copy's id is in the thread's
\* admin_thread_message_ids when the handler ends, also when the header send
\* that follows fails, and a staff reply to the copy resolves to the thread.
C28_DeliveredReplyRecorded ==
    (UserReply(last_event) /\ last_event.resolved # None)
    => \A id \in DeliveredCopies :
          /\ id \in Elems(replies_data[ThreadIndex(last_event.resolved)]
                              .admin_thread_message_ids)
          /\ admin_lookup(replies_data, id) = ThreadIndex(last_event.resolved)

\* ---------------------------------------------------------------- C29
\* The calls handle_broadcast_message makes, and those of handle_admin_reply.
BroadcastKinds ==
    {"broadcast_start", "broadcast_nobody", "broadcast", "broadcast_done"}

ReplyKinds == {"staff_copy", "reply_sent", "reply_failed"}

Kinds(out) == {out[k].kind : k \in DOMAIN out}

\* The step of one staff-group message that is no command.
RouteStep ==
    LET e == last_event'
        awaited == Awaiting(e.from)
    IN e.kind = "admin_message"
       => /\ awaited
             => /\ sent' # <<>>
                /\ Kinds(sent') \subseteq BroadcastKinds
                /\ replies_data' = replies_data
          /\ (~awaited /\ e.reply_to # None)
             => /\ Kinds(sent') \subseteq ReplyKinds
                /\ admin_lookup(replies_data, e.reply_to) # 0
                   => Calls(sent', "staff_copy") # {}
          /\ (~awaited /\ e.reply_to = None)
             => /\ sent' = <<>>
                /\ replies_data' = replies_data

\* C29: a staff-group message that is no command is handled as broadcast
\* content or as a thread reply and never as both: with the sender's flag
\* set it is broadcast and routed to no thread; with the flag not set it is
\* routed as a reply only if it replies to another message.
C29_OneRoute == [][RouteStep]_vars

\* The awaited staff member's message replied to an identifier a thread
\* holds, and was broadcast.
C29_Witness ==
    /\ last_event.kind = "admin_message"
    /\ last_event.reply_to # None
    /\ admin_lookup(replies_data, last_event.reply_to) # 0
    /\ Calls(sent, "broadcast") # {}
    /\ Calls(sent, "staff_copy") = {}

\* ---------------------------------------------------------------- C30
\* The coroutine of the submission the last step belongs to.
EndedTask ==
    CHOOSE t \in tasks : t.q_data.question_id = last_event.resolved

Attempts(out, u) == {k \in Calls(out, "broadcast") : out[k].to = u}

\* The first answer of handle_broadcast_message (line 607 or 609) reached
\* the staff group.
FirstAnswered(out) ==
    \A k \in Calls(out, "broadcast_start") \cup Calls(out, "broadcast_nobody") :
       out[k].ok

\* The reports of line 620 that reached the staff group.
Reports(out) == {k \in Calls(out, "broadcast_done") : out[k].ok}

\* One broadcast: the step of a message of an awaited staff member.
DeliveryStep ==
    LET e == last_event'
        targets == get_all_user_ids(questions_data, active_users)
    IN (e.kind = "admin_message" /\ Awaiting(e.from) /\ FirstAnswered(sent'))
       => /\ \A u \in targets : Cardinality(Attempts(sent', u)) = 1
          /\ \A u \in Users \ targets : Attempts(sent', u) = {}
          /\ \A k \in Reports(sent') :
                /\ sent'[k].info[1] =
                      Cardinality({j \in Calls(sent', "broadcast") : sent'[j].ok})
                /\ sent'[k].info[2] =
                      Cardinality({j \in Calls(sent', "broadcast") : ~sent'[j].ok})
                /\ sent'[k].info[1] + sent'[k].info[2] = Cardinality(targets)

====
